---- MODULE Spec2Model ----
(***************************************************************************)
(* A model of geotiff_to_kmz.py: the usage check, the tree walk that       *)
(* mirrors directories and builds the task list, the process pool that     *)
(* runs convert_tif_to_kmz_task once per task, and the as_completed loop   *)
(* that prints one progress line per result.                               *)
(*                                                                         *)
(* File names are sequences of one-character strings, so that lower(),     *)
(* endswith() and splitext() are computed and not assumed.  A directory is *)
(* [root, rel]: the root it lives under ("in" or "out") and its components *)
(* relative to that root; a file is [root, rel, name].                     *)
(***************************************************************************)
EXTENDS Integers, Sequences, FiniteSets, TLC

VARIABLES
    argc,        \* len(sys.argv)
    tree,        \* what os.walk(root_in) yields: <<[rel, files]>>, top-down
    poolSize,    \* ProcessPoolExecutor()'s max_workers (the machine's cores)
    mainPc,      \* where the main script is
    exitCode,    \* the exit status of the script (2 stands for: still running)
    usage,       \* whether the usage message was printed
    raster,      \* the georeference of the raster get_geotiff_bounds is given
    latFirst,    \* whether TransformPoint answers (lat, lon) or (lon, lat)
    box,         \* what get_geotiff_bounds returned
    walkIdx,     \* the next directory of the walk
    dirs,        \* the directories that exist
    sidecars,    \* the .aux.xml files that exist beside the sources
    tasks,       \* gather_tif_tasks' list of [tif, kmz]
    pc,          \* per task: where its future / its converter call is
    stg,         \* per task: the stage (1..5) its converter is at
    result,      \* per task: the converter's result, then its future's
    tmpdir,      \* per task: its TemporaryDirectory
    tmpfs,       \* the files the converters made and that still exist, the
                 \* bundles apart
    bundles,     \* the .kmz files written: path, entry names, what they hold
    failedStage, \* per task: the stage whose exception the call caught, or 0
    cleanups,    \* per task: how many times cleanup_aux_xml was called
    gdalPam,     \* whether GDAL writes <tif>.aux.xml when it reads a raster
    broken,      \* the pool is broken (a worker process died)
    completed,   \* the futures in the order they completed
    prefinished, \* the futures as_completed found finished when it was called
    count,       \* the loop variable i of enumerate(..., 1)
    yielded,     \* the futures as_completed has yielded, in order
    lines        \* the progress lines printed, in order

vars == <<argc, tree, poolSize, gdalPam, raster, latFirst, box, mainPc, exitCode,
          usage, walkIdx, dirs,
          sidecars, tasks, pc, stg, result, failedStage, cleanups, tmpdir,
          tmpfs, bundles, broken, completed, prefinished, count, yielded, lines>>

-----------------------------------------------------------------------------
(* Bounds of the model *)

MaxItems == 2
MaxPool == 2
MaxOrigin == 1

(* The converter's stages 1..5 *)
NumStages == 5

ArgcValues == {2, 3, 4}

-----------------------------------------------------------------------------
(* Strings *)

TIF == <<".", "t", "i", "f">>
TIFF == <<".", "t", "i", "f", "f">>
KMZ == <<".", "k", "m", "z">>
PNG == <<".", "p", "n", "g">>
AUX_XML == <<".", "a", "u", "x", ".", "x", "m", "l">>
TIFF_AUX_XML == TIFF \o AUX_XML
DOC_KML == <<"d", "o", "c", ".", "k", "m", "l">>

LowerChar(c) ==
    CASE c = "T" -> "t"
      [] c = "I" -> "i"
      [] c = "F" -> "f"
      [] c = "A" -> "a"
      [] c = "B" -> "b"
      [] OTHER -> c

Lower(s) == [j \in 1..Len(s) |-> LowerChar(s[j])]

EndsWith(s, suffix) ==
    /\ Len(s) >= Len(suffix)
    /\ SubSeq(s, Len(s) - Len(suffix) + 1, Len(s)) = suffix

(* os.path.splitext(name)[0]: the name up to its last dot, unless nothing  *)
(* but dots precedes that dot.                                              *)
SplitExtRoot(name) ==
    LET dots == {j \in 1..Len(name) : name[j] = "."}
        dotIndex == IF dots = {} THEN 0
                    ELSE CHOOSE j \in dots : \A k \in dots : k <= j
    IN  IF dotIndex > 0 /\ \E j \in 1..(dotIndex - 1) : name[j] # "."
        THEN SubSeq(name, 1, dotIndex - 1)
        ELSE name

-----------------------------------------------------------------------------
(* The input trees of the model *)

Stems == <<"a", "b", "c", "d", "e", "f", "g", "h">>

FileName(k) == <<Stems[k]>> \o (IF k % 2 = 1 THEN TIF ELSE <<".", "T", "I", "F", "F">>)

README == <<"n", ".", "t", "x", "t">>

OddFiles(n) == [j \in 1..((n + 1) \div 2) |-> FileName(2 * j - 1)]
EvenFiles(n) == [j \in 1..(n \div 2) |-> FileName(2 * j)]

(* n raster files spread over ./ and A/, a file that is no raster, and an  *)
(* empty directory A/B/.                                                    *)
TreeFor(n) ==
    << [rel |-> <<>>, files |-> <<README>> \o OddFiles(n)],
       [rel |-> <<"A">>, files |-> EvenFiles(n)],
       [rel |-> <<"A", "B">>, files |-> <<>>] >>

Trees == {TreeFor(n) : n \in 0..MaxItems}

(* One directory with a.tif and a.tiff side by side *)
ClashTree ==
    << [rel |-> <<>>, files |-> << <<"a">> \o TIF, <<"a">> \o TIFF >>] >>

(* A directory whose file names try the filter and splitext: a name that   *)
(* is nothing but the extension, a name without a dot, a name with two     *)
(* dots, a name that goes on after the extension                           *)
DotTree ==
    << [rel |-> <<>>,
        files |-> << TIF, <<"t", "i", "f">>, <<"a", ".", "b", ".", "T", "i", "f">>,
                     <<"a", ".", "t", "i", "f", "x">> >>],
       [rel |-> <<"A">>, files |-> <<>>] >>

-----------------------------------------------------------------------------
(* Paths *)

Dir(root, rel) == [root |-> root, rel |-> rel]
File(root, rel, name) == [root |-> root, rel |-> rel, name |-> name]

(* A variant of makedirs that makes the output root and nothing below it *)
MakedirsTopOnly(d) == {Dir(d.root, <<>>)}

(* os.makedirs(d, exist_ok=True): d and every missing ancestor of it *)
Prefixes(rel) == {SubSeq(rel, 1, k) : k \in 0..Len(rel)}
Makedirs(d) == {Dir(d.root, r) : r \in Prefixes(d.rel)}

(* os.path.dirname of a file path *)
Dirname(f) == Dir(f.root, f.rel)

(* tif_path + '.aux.xml' *)
AuxXml(tif) == File(tif.root, tif.rel, tif.name \o AUX_XML)

(* tif_path[:-4] + '.tiff.aux.xml' *)
AltAuxXml(tif) ==
    File(tif.root, tif.rel, SubSeq(tif.name, 1, Len(tif.name) - 4) \o TIFF_AUX_XML)

-----------------------------------------------------------------------------
(* gather_tif_tasks, one directory of the walk *)

(* A variant of the filter that compares the name as it is spelled *)
IsRasterCaseSensitive(fname) == EndsWith(fname, TIF) \/ EndsWith(fname, TIFF)

(* fname.lower().endswith('.tif') or fname.lower().endswith('.tiff') *)
IsRaster(fname) == EndsWith(Lower(fname), TIF) \/ EndsWith(Lower(fname), TIFF)

OutDir(d) == Dir("out", d.rel)

DirTasks(d) ==
    LET found == SelectSeq(d.files, IsRaster)
    IN  [j \in 1..Len(found) |->
            [tif |-> File("in", d.rel, found[j]),
             kmz |-> File("out", d.rel, SplitExtRoot(found[j]) \o KMZ)]]

-----------------------------------------------------------------------------
(* get_geotiff_bounds *)

Min(S) == CHOOSE x \in S : \A y \in S : x <= y
Max(S) == CHOOSE x \in S : \A y \in S : x >= y

(* The reference systems of the model: a geographic one, Web Mercator, a   *)
(* projected one with another authority code, a projected one with none   *)
CrsValues ==
    { [projected |-> FALSE, authority |-> "4326"],
      [projected |-> TRUE, authority |-> "3857"],
      [projected |-> TRUE, authority |-> "32633"],
      [projected |-> TRUE, authority |-> "none"] }

(* The rasters of the model: gt = GetGeoTransform() with gt[0], gt[3] the  *)
(* origin and gt[1], gt[5] the pixel size, cols x rows pixels.  Projected  *)
(* coordinates are in units of 1000 km.                                    *)
Rasters ==
    [ox : -MaxOrigin..MaxOrigin, oy : -MaxOrigin..MaxOrigin, pw : {1, 2}, ph : {-1, 1},
     cols : {1, 10}, rows : {1, 10}, crs : CrsValues]

(* corners = [top-left, top-right, bottom-left, bottom-right] *)
Corners(r) ==
    << <<r.ox, r.oy>>,
       <<r.ox + r.cols * r.pw, r.oy>>,
       <<r.ox, r.oy + r.rows * r.ph>>,
       <<r.ox + r.cols * r.pw, r.oy + r.rows * r.ph>> >>

(* epsg = srs.GetAuthorityCode(None) if srs.IsProjected() else None *)
Epsg(r) == IF r.crs.projected THEN r.crs.authority ELSE "none"

(* Web Mercator to WGS84, in hundredths of a degree: the longitude is      *)
(* linear in x, the latitude is 2 atan(exp(y / R)) - 90 degrees            *)
MercLon(x) == IF x >= 0 THEN (8983 * x + 5) \div 10 ELSE -((8983 * (-x) + 5) \div 10)

MercLatTable ==
    << 895, 1768, 2601, 3379, 4092, 4735, 5309, 5816, 6259, 6645, 6979, 7267, 7516,
       7729, 7912, 8069, 8204, 8319, 8418, 8502, 8574, 8636, 8689, 8734, 8773 >>

MercLat(y) ==
    IF y = 0 THEN 0
    ELSE IF y > 0 THEN MercLatTable[y] ELSE -MercLatTable[-y]

(* ct.TransformPoint(x, y): the axes of EPSG:4326 in the order of the      *)
(* authority, latitude first (GDAL 3 as installed), or in the traditional  *)
(* order, longitude first (GDAL 2, or GDAL 3 told to keep that order)      *)
TransformPoint(x, y, latitudeFirst) ==
    IF latitudeFirst THEN <<MercLat(y), MercLon(x), 0>> ELSE <<MercLon(x), MercLat(y), 0>>

(* lon, lat, _ = ct.TransformPoint(x, y); latlons.append((lon, lat)) *)
Transformed(c, latitudeFirst) ==
    LET p == TransformPoint(c[1], c[2], latitudeFirst)
        lon == p[1]
        lat == p[2]
    IN  <<lon, lat>>

(* A variant of the else branch that appends (x, y) *)
NativeUnswapped(c) == <<c[1], c[2]>>

(* for x, y in corners: latlons.append((y, x)) *)
Native(c) == <<c[2], c[1]>>

LatLons(r, latitudeFirst) ==
    IF Epsg(r) = "3857"
    THEN [k \in 1..4 |-> Transformed(Corners(r)[k], latitudeFirst)]
    ELSE [k \in 1..4 |-> Native(Corners(r)[k])]

(* lats = [lat for lat, lon in latlons]; lons = [lon for lat, lon in       *)
(* latlons]; return max(lats), min(lats), max(lons), min(lons)             *)
GetGeotiffBounds(r, latitudeFirst) ==
    LET latlons == LatLons(r, latitudeFirst)
        lats == {latlons[k][1] : k \in 1..4}
        lons == {latlons[k][2] : k \in 1..4}
    IN  [north |-> Max(lats), south |-> Min(lats), east |-> Max(lons), west |-> Min(lons)]

NoBox == [north |-> 0, south |-> 1, east |-> 0, west |-> 1]

-----------------------------------------------------------------------------
(* The futures *)

(* The tasks that have a future: none before the pool exists *)
Items == 1..Len(pc)

Running(i) == pc[i] \in {"tmp", "stage", "hung", "cleanup", "release"}
FutureDone(i) == pc[i] \in {"returned", "raised", "killed", "cancelled"}
HasResult(i) == pc[i] = "returned"

NoTmp == [state |-> "none", dir |-> [root |-> "tmp", rel |-> <<>>]]
NoResult == <<>>
OK == <<"OK">>
Failed(msg) == <<"FAILED", msg>>

(* The message of the exception a stage raises *)
ErrMsg(k) ==
    CASE k = 1 -> "Unable to open input GeoTIFF"
      [] k = 2 -> "cannot identify image file"
      [] k = 3 -> "bounds error"
      [] k = 4 -> "cannot write doc.kml"
      [] OTHER -> "cannot write kmz"

-----------------------------------------------------------------------------
(* The output directories an earlier run may have left: none, or the      *)
(* mirror of the tree down to some depth                                   *)
OutDirsBefore(t) ==
    {{}} \cup {UNION {Makedirs(OutDir(t[j])) : j \in 1..k} : k \in 1..Len(t)}

(* The state when the script starts, for the given inputs and environment *)
InitWith(argcs, trees, pools, pams, sidecarSets, rerun) ==
    /\ argc \in argcs
    /\ tree \in trees
    /\ poolSize \in pools
    /\ gdalPam \in pams
    /\ sidecars \in sidecarSets
    /\ mainPc = "start"
    /\ exitCode = 2
    /\ usage = FALSE
    /\ box = NoBox
    /\ walkIdx = 1
    /\ \E before \in (IF rerun THEN OutDirsBefore(tree) ELSE {{}}) :
          dirs = {Dir("in", tree[j].rel) : j \in 1..Len(tree)} \cup before
    /\ tasks = <<>>
    /\ pc = <<>>
    /\ stg = <<>>
    /\ result = <<>>
    /\ failedStage = <<>>
    /\ cleanups = <<>>
    /\ tmpdir = <<>>
    /\ tmpfs = {}
    /\ bundles = {}
    /\ broken = FALSE
    /\ completed = <<>>
    /\ prefinished = {}
    /\ count = 0
    /\ yielded = <<>>
    /\ lines = <<>>

(* A batch of 0..MaxItems rasters on 1..MaxPool cores, no sidecar files *)
(* No raster is handed to get_geotiff_bounds on its own *)
NoRaster ==
    /\ raster = [ox |-> 0, oy |-> 0, pw |-> 1, ph |-> -1, cols |-> 10, rows |-> 10,
                 crs |-> [projected |-> FALSE, authority |-> "4326"]]
    /\ latFirst = TRUE

Init == InitWith(ArgcValues, Trees, 1..MaxPool, {FALSE}, {{}}, FALSE) /\ NoRaster

workerVars == <<pc, stg, result, failedStage, cleanups, tmpdir, tmpfs, bundles, broken,
                completed, sidecars>>
loopVars == <<prefinished, count, yielded, lines>>
inputVars == <<argc, tree, poolSize, gdalPam, raster, latFirst>>

(* A variant of the usage check that wants one argument *)
UsageErrorOneArgument == argc # 2

(* len(sys.argv) != 3 *)
UsageError == argc # 3

(* if len(sys.argv) != 3: print usage; sys.exit(1) *)
UsageCheck ==
    /\ mainPc = "start"
    /\ IF UsageError
       THEN /\ usage' = TRUE
            /\ mainPc' = "exited"
            /\ exitCode' = 1
       ELSE /\ mainPc' = "walk"
            /\ UNCHANGED <<usage, exitCode>>
    /\ UNCHANGED <<inputVars, box, walkIdx, dirs, tasks, workerVars, loopVars>>

(* A variant of the call without exist_ok *)
ExistOkFalse == FALSE

(* os.makedirs(out_dir, exist_ok=True) *)
ExistOk == TRUE

(* os.makedirs raises FileExistsError when the directory exists, unless    *)
(* exist_ok is given                                                       *)
MakedirsMustRaise(d) == ~ExistOk /\ d \in dirs

(* One iteration of  for dirpath, dirnames, filenames in os.walk(root_in)  *)
(* in which os.makedirs returns                                            *)
WalkOk ==
    /\ mainPc = "walk"
    /\ walkIdx <= Len(tree)
    /\ LET d == tree[walkIdx] IN
          /\ ~MakedirsMustRaise(OutDir(d))
          /\ dirs' = dirs \cup Makedirs(OutDir(d))
          /\ tasks' = tasks \o DirTasks(d)
          /\ walkIdx' = walkIdx + 1
          /\ UNCHANGED <<mainPc, exitCode>>
    /\ UNCHANGED <<inputVars, usage, box, workerVars, loopVars>>

(* os.makedirs raises (permission, disk full, a file in the way): nothing  *)
(* catches it                                                              *)
WalkRaises ==
    /\ mainPc = "walk"
    /\ walkIdx <= Len(tree)
    /\ mainPc' = "raised"
    /\ exitCode' = 1
    /\ UNCHANGED <<dirs, tasks, walkIdx>>
    /\ UNCHANGED <<inputVars, usage, box, workerVars, loopVars>>

(* One iteration of  for dirpath, dirnames, filenames in os.walk(root_in) *)
WalkDir == WalkOk \/ WalkRaises

(* return tasks; print "[+] Found ..."; with ProcessPoolExecutor() as executor *)
WalkDone ==
    /\ mainPc = "walk"
    /\ walkIdx > Len(tree)
    /\ mainPc' = "submit"
    /\ pc' = [i \in 1..Len(tasks) |-> "unsubmitted"]
    /\ stg' = [i \in 1..Len(tasks) |-> 0]
    /\ result' = [i \in 1..Len(tasks) |-> NoResult]
    /\ failedStage' = [i \in 1..Len(tasks) |-> 0]
    /\ cleanups' = [i \in 1..Len(tasks) |-> 0]
    /\ tmpdir' = [i \in 1..Len(tasks) |-> NoTmp]
    /\ UNCHANGED <<inputVars, usage, box, exitCode, walkIdx, dirs, sidecars, tasks, tmpfs, bundles,
                   broken, completed, loopVars>>

-----------------------------------------------------------------------------
(* The process pool: executor.submit and the worker processes *)

Unsubmitted == {i \in Items : pc[i] = "unsubmitted"}
Queued == {i \in Items : pc[i] = "queued"}

(* The futures of S in submission order *)
InOrder(S) == SelectSeq([j \in 1..Len(tasks) |-> j], LAMBDA j : j \in S)

(* future_to_task = {executor.submit(convert_tif_to_kmz_task, task): ...},  *)
(* one task at a time; submit raises once the pool is broken                 *)
Submit ==
    /\ mainPc = "submit"
    /\ Unsubmitted # {}
    /\ IF broken
       THEN /\ mainPc' = "raised"
            /\ exitCode' = 1
            /\ UNCHANGED pc
       ELSE /\ pc' = [pc EXCEPT ![Min(Unsubmitted)] = "queued"]
            /\ UNCHANGED <<mainPc, exitCode>>
    /\ UNCHANGED <<inputVars, usage, box, walkIdx, dirs, sidecars, tasks, stg, result,
                   failedStage, cleanups, tmpdir, tmpfs, bundles, broken, completed,
                   loopVars>>

(* A variant in which a worker that took a call is never free again *)
BusyNeverFreed == {j \in Items : pc[j] \notin {"unsubmitted", "queued"}}

(* The calls that occupy a worker process *)
Busy == {j \in Items : Running(j)}

(* A variant of the pool that runs one call at a time, whatever its size *)
CanDispatchSerial(i) ==
    /\ ~broken
    /\ Queued # {}
    /\ i = Min(Queued)
    /\ {j \in Items : Running(j)} = {}

(* A free worker process takes the oldest queued call *)
CanDispatch(i) ==
    /\ ~broken
    /\ Queued # {}
    /\ i = Min(Queued)
    /\ Cardinality(Busy) < poolSize

Dispatch(i) ==
    /\ CanDispatch(i)
    /\ pc' = [pc EXCEPT ![i] = "tmp"]
    /\ UNCHANGED <<inputVars, usage, box, mainPc, exitCode, walkIdx, dirs, sidecars, tasks, stg,
                   result, failedStage, cleanups, tmpdir, tmpfs, bundles, broken,
                   completed, loopVars>>

-----------------------------------------------------------------------------
(* convert_tif_to_kmz_task, run by a worker on tasks[i] *)

(* base = os.path.splitext(os.path.basename(tif_path))[0] *)
Base(i) == SplitExtRoot(tasks[i].tif.name)
PngName(i) == Base(i) \o PNG

(* The names tempfile.mkdtemp gives: each call gets a name no other        *)
(* directory has, here the name kept for that call                         *)
TmpNames == <<"t1", "t2", "t3", "t4", "t5", "t6">>

(* A variant in which every call works in one and the same directory *)
MkdtempShared(i) == Dir("tmp", <<"t0">>)

(* tempfile.mkdtemp(), as called by TemporaryDirectory() in call i *)
Mkdtemp(i) == Dir("tmp", <<TmpNames[i]>>)

(* with tempfile.TemporaryDirectory() as tmpdir: mkdtemp makes a fresh     *)
(* directory, or raises before the try block is entered                    *)
AcquireTmp(i) ==
    /\ pc[i] = "tmp"
    /\ \/ /\ tmpdir' = [tmpdir EXCEPT ![i] = [state |-> "live", dir |-> Mkdtemp(i)]]
          /\ pc' = [pc EXCEPT ![i] = "stage"]
          /\ stg' = [stg EXCEPT ![i] = 1]
          /\ UNCHANGED completed
       \/ /\ pc' = [pc EXCEPT ![i] = "raised"]
          /\ completed' = Append(completed, i)
          /\ UNCHANGED <<tmpdir, stg>>
    /\ UNCHANGED <<inputVars, usage, box, mainPc, exitCode, walkIdx, dirs, sidecars, tasks,
                   result, failedStage, cleanups, tmpfs, bundles, broken, loopVars>>

(* png_path = os.path.join(tmpdir, base + ".png") *)
PngPath(i) == File(tmpdir[i].dir.root, tmpdir[i].dir.rel, PngName(i))

(* kml_path = os.path.join(tmpdir, "doc.kml") *)
KmlPath(i) == File(tmpdir[i].dir.root, tmpdir[i].dir.rel, DOC_KML)

(* os.path.basename of a file path *)
Basename(f) == f.name

(* The path as one string: root/dir/.../name *)
RECURSIVE JoinRel(_)
JoinRel(rel) == IF rel = <<>> THEN <<>> ELSE <<Head(rel), "/">> \o JoinRel(Tail(rel))
PathString(f) == <<f.root, "/">> \o JoinRel(f.rel) \o f.name

(* A variant of the call of generate_kml that passes png_path itself *)
KmlOfPath(i) == [name |-> PathString(PngPath(i)), href |-> PathString(PngPath(i))]

(* generate_kml(os.path.basename(png_path), ...): the <name> and the       *)
(* <href> of the document                                                  *)
Kml(i) == [name |-> Basename(PngPath(i)), href |-> Basename(PngPath(i))]

NoDoc == [name |-> <<>>, href |-> <<>>]

(* What exists under the temporary root once stage k of item i returned:   *)
(* stage 1 writes png_path, stage 4 writes kml_path                        *)
TmpAfter(i, k) ==
    CASE k = 1 -> tmpfs \cup {PngPath(i)}
      [] k = 4 -> tmpfs \cup {KmlPath(i)}
      [] OTHER -> tmpfs

(* TemporaryDirectory.cleanup(): the directory goes with all it holds *)
Rmtree(d) == {f \in tmpfs : Dirname(f) # d}

(* create_kmz: a new archive at kmz_path; zf.write(kml_path, 'doc.kml')    *)
(* puts the document in, zf.write(image_path, basename(image_path)) the    *)
(* image of the source                                                     *)
Bundle(i, entries) ==
    [path |-> tasks[i].kmz,
     entries |-> entries,
     doc |-> IF DOC_KML \in entries THEN Kml(i) ELSE NoDoc,
     image |-> IF Basename(PngPath(i)) \in entries THEN <<tasks[i].tif>> ELSE <<>>]

WriteBundle(i, entries) ==
    {b \in bundles : b.path # tasks[i].kmz} \cup {Bundle(i, entries)}

(* result = (tif_path, "OK") *)
OkResult(i) == <<tasks[i].tif, OK>>

(* A variant of the except clause that loses the exception's message *)
ExceptResultNoMessage(i, k) == <<tasks[i].tif, Failed("")>>

(* The except clause: result = (tif_path, f"FAILED: {e}") *)
ExceptResult(i, k) == <<tasks[i].tif, Failed(ErrMsg(k))>>

(* A variant of the converter whose cleanup is skipped when a stage raised *)
AfterRaiseSkip(i, k) == "release"

(* Where the converter goes when stage k raised: the finally clause *)
AfterRaise(i, k) == "cleanup"

Stage(i) ==
    /\ pc[i] = "stage"
    /\ LET k == stg[i] IN
       \/ \* the stage returns
          /\ tmpfs' = TmpAfter(i, k)
          /\ IF k = 1 /\ gdalPam
             THEN \* GDAL may leave <tif>.aux.xml beside the source
                  sidecars' \in {sidecars, sidecars \cup {AuxXml(tasks[i].tif)}}
             ELSE UNCHANGED sidecars
          /\ bundles' = IF k = NumStages
                        THEN WriteBundle(i, {DOC_KML, Basename(PngPath(i))})
                        ELSE bundles
          /\ IF k < NumStages
             THEN /\ stg' = [stg EXCEPT ![i] = k + 1]
                  /\ UNCHANGED <<pc, result>>
             ELSE /\ result' = [result EXCEPT ![i] = OkResult(i)]
                  /\ pc' = [pc EXCEPT ![i] = "cleanup"]
                  /\ stg' = [stg EXCEPT ![i] = 0]
          /\ UNCHANGED failedStage
       \/ \* the stage raises an Exception: except, then finally
          /\ failedStage' = [failedStage EXCEPT ![i] = k]
          /\ result' = [result EXCEPT ![i] = ExceptResult(i, k)]
          /\ pc' = [pc EXCEPT ![i] = AfterRaise(i, k)]
          /\ stg' = [stg EXCEPT ![i] = 0]
          /\ IF k = NumStages
             THEN \* ZipFile(kmz_path, 'w') may have created the archive
                  bundles' \in {bundles, WriteBundle(i, {}), WriteBundle(i, {DOC_KML})}
             ELSE UNCHANGED bundles
          /\ UNCHANGED <<tmpfs, sidecars>>
       \/ \* the stage never returns (no timeout on an item)
          /\ pc' = [pc EXCEPT ![i] = "hung"]
          /\ UNCHANGED <<result, failedStage, stg, tmpfs, sidecars, bundles>>
    /\ UNCHANGED <<inputVars, usage, box, mainPc, exitCode, walkIdx, dirs, tasks, cleanups,
                   tmpdir, broken, completed, loopVars>>

(* cleanup_aux_xml(tif_path): the sidecar files it looks for *)
CleanupTargets(tif) ==
    {AuxXml(tif)} \cup (IF EndsWith(Lower(tif.name), TIF) THEN {AltAuxXml(tif)} ELSE {})

(* A variant of cleanup_aux_xml without the try around os.remove *)
RemoveOutcomeUnguarded(fails) == IF fails THEN "raise" ELSE "removed"

(* try: os.remove(f)  except Exception: pass *)
RemoveOutcome(fails) == IF fails THEN "kept" ELSE "removed"

(* finally: cleanup_aux_xml(tif_path).  Each target that exists is removed, *)
(* or os.remove fails on it; an exception that left cleanup_aux_xml would   *)
(* leave the converter too, in place of its result.                         *)
Cleanup(i) ==
    /\ pc[i] = "cleanup"
    /\ cleanups' = [cleanups EXCEPT ![i] = @ + 1]
    /\ \E failing \in SUBSET (CleanupTargets(tasks[i].tif) \cap sidecars) :
          LET found == CleanupTargets(tasks[i].tif) \cap sidecars
              outcome == [f \in found |-> RemoveOutcome(f \in failing)]
          IN  /\ sidecars' = sidecars \ {f \in found : outcome[f] = "removed"}
              /\ IF \E f \in found : outcome[f] = "raise"
                 THEN /\ pc' = [pc EXCEPT ![i] = "raised"]
                      /\ result' = [result EXCEPT ![i] = NoResult]
                      /\ failedStage' = [failedStage EXCEPT ![i] = 0]
                      /\ tmpdir' = [tmpdir EXCEPT ![i].state = "removed"]
                      /\ tmpfs' = Rmtree(tmpdir[i].dir)
                      /\ completed' = Append(completed, i)
                 ELSE /\ pc' = [pc EXCEPT ![i] = "release"]
                      /\ UNCHANGED <<result, failedStage, tmpdir, tmpfs, completed>>
    /\ UNCHANGED <<inputVars, usage, box, mainPc, exitCode, walkIdx, dirs, tasks, stg, bundles,
                   broken, loopVars>>

(* return result, leaving the with block: the temporary directory is       *)
(* removed, or its removal raises and the exception replaces the result     *)
Release(i) ==
    /\ pc[i] = "release"
    /\ \/ /\ tmpdir' = [tmpdir EXCEPT ![i].state = "removed"]
          /\ tmpfs' = Rmtree(tmpdir[i].dir)
          /\ pc' = [pc EXCEPT ![i] = "returned"]
          /\ UNCHANGED <<result, failedStage>>
       \/ /\ tmpdir' = [tmpdir EXCEPT ![i].state = "leaked"]
          /\ UNCHANGED tmpfs
          /\ pc' = [pc EXCEPT ![i] = "raised"]
          /\ result' = [result EXCEPT ![i] = NoResult]
          /\ failedStage' = [failedStage EXCEPT ![i] = 0]
    /\ completed' = Append(completed, i)
    /\ UNCHANGED <<inputVars, usage, box, mainPc, exitCode, walkIdx, dirs, sidecars, tasks, stg,
                   cleanups, bundles, broken, loopVars>>

(* The worker process running item i dies in a stage (a crash in the       *)
(* native code of a library): the pool is broken, every future not yet     *)
(* done gets BrokenProcessPool and the other workers are terminated.  What *)
(* the killed calls held in memory is gone.                                *)
WorkerDies(i) ==
    /\ pc[i] = "stage"
    /\ broken' = TRUE
    /\ pc' = [j \in Items |->
                IF Running(j) THEN "killed"
                ELSE IF pc[j] = "queued" THEN "cancelled"
                ELSE pc[j]]
    /\ result' = [j \in Items |-> IF Running(j) THEN NoResult ELSE result[j]]
    /\ tmpdir' = [j \in Items |->
                    IF Running(j) /\ tmpdir[j].state = "live"
                    THEN [tmpdir[j] EXCEPT !.state = "leaked"]
                    ELSE tmpdir[j]]
    /\ completed' = completed \o InOrder({j \in Items : Running(j) \/ pc[j] = "queued"})
    /\ stg' = [j \in Items |-> IF Running(j) THEN 0 ELSE stg[j]]
    /\ failedStage' = [j \in Items |-> IF Running(j) THEN 0 ELSE failedStage[j]]
    /\ UNCHANGED <<inputVars, usage, box, mainPc, exitCode, walkIdx, dirs, sidecars, tasks,
                   cleanups, tmpfs, bundles, loopVars>>

-----------------------------------------------------------------------------
(* for i, future in enumerate(as_completed(future_to_task), 1) *)

Seen == {yielded[j] : j \in 1..Len(yielded)}

(* as_completed is called: the futures already finished are set apart *)
StartCollect ==
    /\ mainPc = "submit"
    /\ Unsubmitted = {}
    /\ prefinished' = {i \in Items : FutureDone(i)}
    /\ mainPc' = "collect"
    /\ UNCHANGED <<inputVars, usage, box, exitCode, walkIdx, dirs, tasks, workerVars, count,
                   yielded, lines>>

(* A variant of as_completed that does not set aside what it has yielded *)
AsCompletedAgain == {i \in Items : FutureDone(i)}

(* A variant of the loop that takes the futures in submission order, each *)
(* one when it is done                                                     *)
InSubmissionOrder ==
    LET waiting == {i \in Items : i \notin Seen}
    IN  IF waiting # {} /\ FutureDone(Min(waiting)) THEN {Min(waiting)} ELSE {}

(* The futures as_completed may yield next: those that had finished before *)
(* the call come first, in no particular order (they are kept in a set);   *)
(* the others follow in the order they finish.                             *)
AsCompletedNext ==
    IF prefinished \ Seen # {}
    THEN prefinished \ Seen
    ELSE LET later == SelectSeq(completed, LAMBDA j : j \notin Seen)
         IN  IF later = <<>> THEN {} ELSE {Head(later)}

(* enumerate(..., 1): the counter of the next iteration *)
NextCount(c) == c + 1

(* A variant of the progress line that counts from 0 *)
LineFromZero(i, res) ==
    [n |-> i - 1, total |-> Len(tasks), tif |-> res[1], status |-> res[2]]

(* print(f"[{i}/{len(tasks)}] {tif_path}: {status}") *)
Line(i, res) == [n |-> i, total |-> Len(tasks), tif |-> res[1], status |-> res[2]]

(* One iteration: the next future, then future.result(), which returns the *)
(* converter's result or raises the exception the future holds             *)
Collect ==
    /\ mainPc = "collect"
    /\ \E f \in AsCompletedNext :
          /\ yielded' = Append(yielded, f)
          /\ count' = NextCount(count)
          /\ IF HasResult(f)
             THEN /\ lines' = Append(lines, Line(count', result[f]))
                  /\ UNCHANGED <<mainPc, exitCode>>
             ELSE /\ mainPc' = "raised"
                  /\ exitCode' = 1
                  /\ UNCHANGED lines
    /\ UNCHANGED <<inputVars, usage, box, walkIdx, dirs, tasks, workerVars, prefinished>>

(* Every future was yielded: the with block and the script end *)
LoopDone ==
    /\ mainPc = "collect"
    /\ Len(yielded) = Len(tasks)
    /\ mainPc' = "done"
    /\ exitCode' = 0
    /\ UNCHANGED <<inputVars, usage, box, walkIdx, dirs, tasks, workerVars, loopVars>>

MainStep ==
    UsageCheck \/ WalkDir \/ WalkDone \/ Submit \/ StartCollect \/ Collect \/ LoopDone

WorkerStep(i) ==
    /\ i \in Items
    /\ \/ Dispatch(i)
       \/ AcquireTmp(i)
       \/ Stage(i)
       \/ Cleanup(i)
       \/ Release(i)
       \/ WorkerDies(i)

Next ==
    \/ UsageCheck
    \/ WalkDir
    \/ WalkDone
    \/ Submit
    \/ StartCollect
    \/ Collect
    \/ LoopDone
    \/ \E i \in Items : Dispatch(i)
    \/ \E i \in Items : AcquireTmp(i)
    \/ \E i \in Items : Stage(i)
    \/ \E i \in Items : Cleanup(i)
    \/ \E i \in Items : Release(i)
    \/ \E i \in Items : WorkerDies(i)

Spec == Init /\ [][Next]_vars

(* The operating system runs the main process and every worker process:   *)
(* none of them is held back for ever while it can take a step.            *)
Fairness == WF_vars(MainStep) /\ \A i \in 1..MaxItems : WF_vars(WorkerStep(i))

FairSpec == Init /\ [][Next]_vars /\ Fairness

(* The converter under every behaviour of the sidecar files: rasters read  *)
(* by a GDAL that may write <tif>.aux.xml, with sidecars of a.tif left by   *)
(* earlier runs, converted one at a time.                                  *)
OldSidecars ==
    {AuxXml(File("in", <<>>, FileName(1))), AltAuxXml(File("in", <<>>, FileName(1)))}

ConvInit ==
    /\ InitWith({3}, {TreeFor(n) : n \in 1..MaxItems}, {1}, BOOLEAN, SUBSET OldSidecars, FALSE)
    /\ NoRaster

ConvSpec == ConvInit /\ [][Next]_vars

(* gather_tif_tasks alone: the usage check and the walk, over the trees of *)
(* the batch and the tree of odd names, on an output root that an earlier  *)
(* run may have filled.                                                    *)
RECURSIVE WalkTasks(_, _)
WalkTasks(t, n) == IF n = 0 THEN <<>> ELSE WalkTasks(t, n - 1) \o DirTasks(t[n])

WalkTrees == Trees \cup {DotTree}

WalkInit == InitWith(ArgcValues, WalkTrees, {1}, {FALSE}, {{}}, TRUE) /\ NoRaster

WalkNext == UsageCheck \/ WalkDir \/ WalkDone

WalkSpec == WalkInit /\ [][WalkNext]_vars

(* The batch on the directory that holds a.tif and a.tiff *)
ClashInit ==
    /\ InitWith({3}, {ClashTree}, 1..MaxPool, BOOLEAN, {{}}, FALSE)
    /\ NoRaster

ClashSpec == ClashInit /\ [][Next]_vars

(* get_geotiff_bounds alone, called once on each raster of the model under *)
(* either order of the axes                                                *)
BoundsInit ==
    /\ InitWith({3}, {TreeFor(1)}, {1}, {FALSE}, {{}}, FALSE)
    /\ raster \in Rasters
    /\ latFirst \in BOOLEAN

GetBounds ==
    /\ box = NoBox
    /\ box' = GetGeotiffBounds(raster, latFirst)
    /\ UNCHANGED <<inputVars, usage, mainPc, exitCode, walkIdx, dirs, tasks, workerVars,
                   loopVars>>

BoundsNext == GetBounds

BoundsSpec == BoundsInit /\ [][BoundsNext]_vars

-----------------------------------------------------------------------------
(* What the progress lines say *)

LinesAbout(i) == {j \in 1..Len(lines) : lines[j].tif = tasks[i].tif}
LinesWith(status) == {j \in 1..Len(lines) : lines[j].status = status}
Pos(seq, x) == CHOOSE j \in 1..Len(seq) : seq[j] = x

(* The main script left the walk with an exception of os.makedirs *)
WalkFailed == mainPc = "raised" /\ walkIdx <= Len(tree)

(* C1: no WorkItem is ever reported twice and every progress line is about *)
(* a WorkItem of the task list; when the batch run finishes, on any pool   *)
(* size, every WorkItem has exactly one reported result, so that the       *)
(* number of reported results is the number of discovered WorkItems.       *)
C1_ExactlyOnePerItem ==
    /\ \A j, k \in 1..Len(lines) : j # k => lines[j].tif # lines[k].tif
    /\ \A j \in 1..Len(lines) : \E i \in 1..Len(tasks) : lines[j].tif = tasks[i].tif
    /\ mainPc = "done" =>
          /\ Len(lines) = Len(tasks)
          /\ \A i \in 1..Len(tasks) : Cardinality(LinesAbout(i)) = 1

(* Two WorkItems on a pool of one worker, both reported, the run finished *)
C1_Witness ==
    /\ mainPc = "done"
    /\ poolSize = 1
    /\ Len(tasks) = 2
    /\ Len(lines) = 2

(* C2: a fault in one worker's processing of one item, stages 1-5 or not   *)
(* (the temporary directory cannot be made or removed, the worker process  *)
(* dies), never ends the loop that collects the results: once the walk is  *)
(* over the main script raises no exception.                               *)
C2_LoopSurvivesFaults == mainPc = "raised" => WalkFailed

(* C3: an exception raised by a stage is caught in the converter, which    *)
(* goes on to return (source path, FAILED: message of that stage); and a   *)
(* finished run of N items whose stages all succeeded and one item whose   *)
(* decode stage raised has printed N+1 lines, N of them OK and one FAILED  *)
(* with the decode message, about the item that failed.                    *)
C3_StageFailureIsAResult ==
    /\ \A i \in Items : failedStage[i] # 0 =>
          /\ pc[i] \in {"cleanup", "release", "returned"}
          /\ result[i] = <<tasks[i].tif, <<"FAILED", ErrMsg(failedStage[i])>>>>
    /\ \A i \in Items : pc[i] = "returned" /\ failedStage[i] = 0 =>
          result[i] = <<tasks[i].tif, <<"OK">>>>
    /\ ( /\ mainPc = "done"
         /\ Cardinality({i \in Items : failedStage[i] = 1}) = 1
         /\ \A i \in Items : failedStage[i] \in {0, 1} )
       => /\ Len(lines) = Len(tasks)
          /\ Cardinality(LinesWith(<<"OK">>)) = Len(tasks) - 1
          /\ Cardinality(LinesWith(<<"FAILED", ErrMsg(1)>>)) = 1
          /\ \A i \in Items : failedStage[i] = 1 =>
                LinesAbout(i) \subseteq LinesWith(<<"FAILED", ErrMsg(1)>>)

(* One item converted, one item whose decode raised, the run finished *)
C3_Witness ==
    /\ mainPc = "done"
    /\ Len(tasks) = 2
    /\ \E i, j \in Items : failedStage[i] = 1 /\ failedStage[j] = 0 /\ pc[j] = "returned"

(* C4: at every moment of every run the k-th progress line printed carries *)
(* the counter k and the total len(tasks), whichever item it is about, so  *)
(* the counters are 1, 2, ... in that order with the same total on every   *)
(* line; a run that finishes has printed the counters up to the total.     *)
C4_CountersInOrder ==
    /\ \A j \in 1..Len(lines) : lines[j].n = j /\ lines[j].total = Len(tasks)
    /\ Len(lines) <= Len(tasks)
    /\ mainPc = "done" => Len(lines) = Len(tasks)

(* A finished run whose first line is about the second WorkItem *)
C4_Witness ==
    /\ mainPc = "done"
    /\ Len(lines) = 2
    /\ lines[1].tif = tasks[2].tif
    /\ lines[2].tif = tasks[1].tif

-----------------------------------------------------------------------------
(* Scheduling *)

(* The items whose converter did not end in a result or a caught failure:  *)
(* it hangs in a stage, raised outside the try block, or lost its worker   *)
Hung == {i \in Items : pc[i] = "hung"}
Faulted == {i \in Items : pc[i] \in {"raised", "killed", "cancelled"}}

(* The item a progress line is about *)
ItemOf(line) == CHOOSE i \in 1..Len(tasks) : tasks[i].tif = line.tif
Reported == {ItemOf(lines[j]) : j \in 1..Len(lines)}

(* C5: with fewer workers than WorkItems (1 <= P < M), under fair          *)
(* scheduling of the main process and of the workers, a batch whose        *)
(* submission has started either sees some item's pipeline not terminate   *)
(* in a result (it hangs, or faults outside the stages), or ends with all  *)
(* M results reported: no item starves for want of a worker.               *)
C5_SmallPoolCompletesAll ==
    (mainPc = "submit" /\ poolSize < Len(tasks))
        ~> \/ Hung # {}
           \/ Faulted # {}
           \/ /\ mainPc = "done"
              /\ Reported = 1..Len(tasks)
              /\ Len(lines) = Len(tasks)

(* The run ended with every item returned and reported, on fewer workers   *)
(* than items                                                              *)
C5_Witness ==
    /\ mainPc = "done"
    /\ poolSize < Len(tasks)
    /\ \A i \in Items : pc[i] = "returned"
    /\ Reported = 1..Len(tasks)

(* C6 as stated: the progress lines are in the order in which the items    *)
(* finished, for every two lines printed.                                  *)
C6_CompletionOrder ==
    \A j, k \in 1..Len(lines) :
        j < k => Pos(completed, ItemOf(lines[j])) < Pos(completed, ItemOf(lines[k]))

(* C6, amended: a line is printed only about an item whose converter has   *)
(* returned; of two lines, the earlier is about the item that finished     *)
(* first unless both items had finished before the collecting loop         *)
(* started; and whenever the loop is collecting and some finished item is  *)
(* not yet taken, the loop can take one without waiting for any other.     *)
C6_CompletionOrderOnceCollecting ==
    /\ \A j \in 1..Len(lines) : pc[ItemOf(lines[j])] = "returned"
    /\ \A j, k \in 1..Len(lines) :
          j < k =>
             \/ Pos(completed, ItemOf(lines[j])) < Pos(completed, ItemOf(lines[k]))
             \/ {ItemOf(lines[j]), ItemOf(lines[k])} \subseteq prefinished
    /\ (mainPc = "collect" /\ \E i \in Items : FutureDone(i) /\ i \notin Seen)
          => ENABLED Collect

(* The first line is about the second item, printed while the first item,  *)
(* submitted before it, is still being converted                           *)
C6_Witness ==
    /\ Len(lines) = 1
    /\ Len(tasks) = 2
    /\ ItemOf(lines[1]) = 2
    /\ pc[1] \in {"tmp", "stage", "cleanup", "release"}
    /\ prefinished = {}

(* C7: with two or more workers, under fair scheduling, a batch whose      *)
(* submission has started reaches a moment when every item is either hung  *)
(* or reported, unless some item faults outside the stages or a second     *)
(* item hangs too: one hung item keeps no other item from being            *)
(* dispatched, completed and reported.  And while an item hangs, the run   *)
(* does not end.                                                           *)
C7_HungItemBlocksOnlyItsWorker ==
    /\ (mainPc = "submit" /\ poolSize >= 2)
          ~> \/ Faulted # {}
             \/ Cardinality(Hung) >= 2
             \/ /\ mainPc \in {"collect", "done"}
                /\ \A i \in Items : i \in Hung \/ i \in Reported
    /\ [](Hung # {} => mainPc # "done")

(* One item hangs on a pool of two workers and the other item is reported *)
C7_Witness ==
    /\ poolSize >= 2
    /\ Cardinality(Hung) = 1
    /\ Items \ Hung # {}
    /\ Reported = Items \ Hung
    /\ mainPc = "collect"

-----------------------------------------------------------------------------
(* The converter and its cleanup *)

(* The result that stages 1-5 of item i determined *)
StagesResult(i) ==
    IF failedStage[i] = 0
    THEN <<tasks[i].tif, <<"OK">>>>
    ELSE <<tasks[i].tif, <<"FAILED", ErrMsg(failedStage[i])>>>>

(* C8: in every execution of the converter that reached its stages,        *)
(* cleanup_aux_xml is called exactly once: not while a stage of 1-5 is     *)
(* still to run or running, and before the converter leaves with its       *)
(* result, whether the stages all succeeded or one of them raised.         *)
C8_CleanupRunsOnce ==
    \A i \in Items :
        /\ cleanups[i] <= 1
        /\ pc[i] \in {"unsubmitted", "queued", "tmp", "stage", "hung", "cleanup"}
              => cleanups[i] = 0
        /\ pc[i] \in {"release", "returned"} => cleanups[i] = 1
        /\ pc[i] = "raised" => cleanups[i] = (IF tmpdir[i].state = "none" THEN 0 ELSE 1)

(* The bounds stage raised; the cleanup ran once and the FAILED result was *)
(* returned                                                                *)
C8_Witness ==
    \E i \in Items :
        /\ pc[i] = "returned"
        /\ failedStage[i] = 3
        /\ cleanups[i] = 1
        /\ result[i] = StagesResult(i)

(* C9: the call of cleanup_aux_xml, whether each removal succeeds or       *)
(* fails, ends in the converter going on to return, with the result        *)
(* unchanged, and never in an exception; the result the converter holds    *)
(* after the cleanup and returns is the one stages 1-5 determined.         *)
C9_CleanupNeverChangesResult ==
    /\ [](\A i \in Items : pc[i] \in {"release", "returned"} => result[i] = StagesResult(i))
    /\ [][\A i \in Items :
            (pc[i] = "cleanup" /\ pc'[i] # "cleanup")
               => /\ pc'[i] \in {"release", "killed"}
                  /\ pc'[i] = "release" => result'[i] = result[i]]_vars

(* The converter returned OK although the removal of the sidecar failed:   *)
(* the file is still there after the cleanup                               *)
C9_Witness ==
    \E i \in Items :
        /\ pc[i] = "returned"
        /\ cleanups[i] = 1
        /\ AuxXml(tasks[i].tif) \in sidecars
        /\ result[i] = <<tasks[i].tif, <<"OK">>>>

-----------------------------------------------------------------------------
(* The walk *)

(* C10: a task that has been submitted has the directory of its bundle     *)
(* under the output root; no task is submitted before the walk is over,    *)
(* and a walk that os.makedirs ended submits nothing.                      *)
C10_DestinationDirExists ==
    /\ \A i \in Items : pc[i] # "unsubmitted" =>
          /\ tasks[i].kmz.root = "out"
          /\ Dirname(tasks[i].kmz) \in dirs
    /\ Items # {} => walkIdx > Len(tree)
    /\ walkIdx <= Len(tree) => (pc = <<>> /\ mainPc \in {"start", "exited", "walk", "raised"})
    /\ WalkFailed => (pc = <<>> /\ exitCode = 1)

(* A raster of the subdirectory A is submitted: out/A exists *)
C10_Witness ==
    \E i \in Items :
        /\ pc[i] = "queued"
        /\ tasks[i].kmz.rel = <<"A">>
        /\ Dir("out", <<"A">>) \in dirs

(* The output directory at the same relative path as each input directory *)
Mirror == {Dir("out", tree[j].rel) : j \in 1..Len(tree)}

(* C11: every directory the walk has visited has its mirror under the      *)
(* output root, the root and the directories without a raster included, so *)
(* that after the walk the whole mirror exists; while the walk goes on,    *)
(* os.makedirs can return whether or not the directory exists already; the *)
(* task list the walk returns is that of the tree, whatever existed under  *)
(* the output root; and once the mirror exists a walk changes no           *)
(* directory.                                                              *)
C11_MirrorEveryDirectory ==
    /\ [](\A j \in 1..Len(tree) : j < walkIdx => Dir("out", tree[j].rel) \in dirs)
    /\ [](walkIdx > Len(tree) => (Mirror \subseteq dirs /\ tasks = WalkTasks(tree, Len(tree))))
    /\ []((mainPc = "walk" /\ walkIdx <= Len(tree)) => ENABLED WalkOk)
    /\ [][Mirror \subseteq dirs => dirs' = dirs]_vars

(* The walk has mirrored the root and A, which both existed already (the   *)
(* empty directory A/B under them exists before the walk has come to it),  *)
(* and has not failed                                                      *)
C11_Witness ==
    /\ mainPc = "walk"
    /\ walkIdx = 3
    /\ Len(tree) = 3
    /\ tree[3].files = <<>>
    /\ Dir("out", <<"A", "B">>) \in dirs
    /\ Len(tasks) = 2

(* The files of the tree, as <<directory, name>> *)
TreeFiles ==
    UNION {{<<tree[j].rel, tree[j].files[k]>> : k \in 1..Len(tree[j].files)} :
              j \in 1..Len(tree)}

(* Whether a name ends, whatever its case, in .tif or .tiff *)
EndsInTifOrTiff(name) ==
    \E n \in {4, 5} :
        /\ Len(name) >= n
        /\ Lower(SubSeq(name, Len(name) - n + 1, Len(name))) \in {TIF, TIFF}

(* The name with everything from its last dot on replaced by .kmz *)
LastDot(name) == CHOOSE j \in 1..Len(name) : name[j] = "." /\ \A k \in (j + 1)..Len(name) : name[k] # "."
ReplaceLastExt(name) == SubSeq(name, 1, LastDot(name) - 1) \o KMZ

(* The same, but a name with nothing except dots before its last dot is    *)
(* kept whole and .kmz is added to it                                      *)
KeepDotNames(name) ==
    IF \A j \in 1..(LastDot(name) - 1) : name[j] = "."
    THEN name \o KMZ
    ELSE ReplaceLastExt(name)

(* The task list holds one task for each file of the tree that ends in     *)
(* .tif or .tiff and none for any other file, each with the destination    *)
(* out/<same directory>/<KmzName of the file's name>                       *)
OneTaskPerRaster(KmzName(_)) ==
    /\ \A f \in TreeFiles :
          Cardinality({i \in 1..Len(tasks) : tasks[i].tif = File("in", f[1], f[2])})
             = (IF EndsInTifOrTiff(f[2]) THEN 1 ELSE 0)
    /\ \A i \in 1..Len(tasks) :
          /\ <<tasks[i].tif.rel, tasks[i].tif.name>> \in TreeFiles
          /\ tasks[i].tif.root = "in"
          /\ tasks[i].kmz = File("out", tasks[i].tif.rel, KmzName(tasks[i].tif.name))

(* C12 as stated: after the walk there is exactly one WorkItem for each    *)
(* file whose name ends in .tif or .tiff, whatever its case, none for any  *)
(* other file, and its destination is the same relative directory under    *)
(* the output root with the file's last extension replaced by .kmz.        *)
C12_ExtensionReplaced == walkIdx > Len(tree) => OneTaskPerRaster(ReplaceLastExt)

(* C12, amended: the same, except that a name with nothing but dots before *)
(* its last dot (".tif") has no extension to replace: its destination is   *)
(* the whole name with .kmz added (".tif.kmz").                            *)
C12_ExtensionReplacedUnlessDotName == walkIdx > Len(tree) => OneTaskPerRaster(KeepDotNames)

(* The walk of the tree of odd names is over: .tif and a.b.Tif are tasks,  *)
(* tif and a.tifx are not                                                  *)
C12_Witness ==
    /\ walkIdx > Len(tree)
    /\ tree = DotTree
    /\ Len(tasks) = 2
    /\ tasks[1].kmz.name = TIF \o KMZ
    /\ tasks[2].kmz.name = <<"a", ".", "b">> \o KMZ

-----------------------------------------------------------------------------
(* The command line *)

(* C13: with any number of arguments other than two (len(sys.argv) # 3)    *)
(* the script prints the usage message and exits with status 1, having     *)
(* walked nothing, created no directory, built no task and submitted       *)
(* nothing; with two arguments it prints no usage message, and when the    *)
(* batch completes it exits with status 0, whatever the results were; it   *)
(* exits with status 0 in no other case.                                   *)
C13_ExitCodes ==
    /\ argc # 3 =>
          /\ mainPc \in {"start", "exited"}
          /\ walkIdx = 1
          /\ \A d \in dirs : d.root = "in"
          /\ tasks = <<>> /\ pc = <<>> /\ lines = <<>>
    /\ mainPc = "exited" => (argc # 3 /\ usage /\ exitCode = 1)
    /\ argc = 3 => (~usage /\ mainPc # "exited")
    /\ mainPc = "done" => (argc = 3 /\ exitCode = 0)
    /\ exitCode = 0 => mainPc = "done"

(* The batch completed with every item reported FAILED: exit status 0 *)
C13_Witness ==
    /\ mainPc = "done"
    /\ exitCode = 0
    /\ Len(lines) = 2
    /\ \A j \in 1..Len(lines) : lines[j].status[1] = "FAILED"

-----------------------------------------------------------------------------
(* The bounds *)

Larger(a, b) == IF a >= b THEN a ELSE b
Smaller(a, b) == IF a <= b THEN a ELSE b

(* The raster with origin (0, 0), pixel size (1, -1) and 10 x 10 pixels in *)
(* a geographic reference system                                           *)
TenByTen ==
    [ox |-> 0, oy |-> 0, pw |-> 1, ph |-> -1, cols |-> 10, rows |-> 10,
     crs |-> [projected |-> FALSE, authority |-> "4326"]]

(* C14: for a raster in a geographic reference system with origin          *)
(* (ox, oy), pixel size (pw, ph) and cols x rows pixels, get_geotiff_bounds*)
(* returns north = max(oy, oy + rows*ph), south = min(oy, oy + rows*ph),   *)
(* east = max(ox, ox + cols*pw), west = min(ox, ox + cols*pw); north is    *)
(* not below south nor east below west; and the raster with origin (0, 0), *)
(* pixel size (1, -1) and 10 x 10 pixels gets 0, -10, 10, 0.               *)
C14_GeographicBounds ==
    (box # NoBox /\ ~raster.crs.projected) =>
        /\ box.north = Larger(raster.oy, raster.oy + raster.rows * raster.ph)
        /\ box.south = Smaller(raster.oy, raster.oy + raster.rows * raster.ph)
        /\ box.east = Larger(raster.ox, raster.ox + raster.cols * raster.pw)
        /\ box.west = Smaller(raster.ox, raster.ox + raster.cols * raster.pw)
        /\ box.north >= box.south
        /\ box.east >= box.west
        /\ raster = TenByTen =>
              box = [north |-> 0, south |-> -10, east |-> 10, west |-> 0]

(* The bounds of the 10 x 10 raster at the origin were computed *)
C14_Witness ==
    /\ raster = TenByTen
    /\ box = [north |-> 0, south |-> -10, east |-> 10, west |-> 0]

(* The y and the x coordinates of the four corners *)
CornerYs == {raster.oy, raster.oy + raster.rows * raster.ph}
CornerXs == {raster.ox, raster.ox + raster.cols * raster.pw}

(* C18: for a projected raster with authority code 3857 the bounds are     *)
(* those of the transformed corners, north and south from the latitudes    *)
(* the transform gives and east and west from its longitudes; for every    *)
(* other reference system the native corners are used, y as latitude and x *)
(* as longitude.                                                           *)
C18_TransformOnlyFor3857 ==
    box # NoBox =>
        IF raster.crs.projected /\ raster.crs.authority = "3857"
        THEN box = [north |-> Max({MercLat(y) : y \in CornerYs}),
                    south |-> Min({MercLat(y) : y \in CornerYs}),
                    east |-> Max({MercLon(x) : x \in CornerXs}),
                    west |-> Min({MercLon(x) : x \in CornerXs})]
        ELSE box = [north |-> Max(CornerYs), south |-> Min(CornerYs),
                    east |-> Max(CornerXs), west |-> Min(CornerXs)]

-----------------------------------------------------------------------------
(* The files of the converter *)

(* The converter of item i has left the try block with (tif_path, "OK") *)
Succeeded(i) == pc[i] \in {"cleanup", "release", "returned"} /\ failedStage[i] = 0

(* The bundles at the destination of item i *)
BundlesAt(i) == {b \in bundles : b.path = tasks[i].kmz}

(* The name of the source without its last extension, then .png *)
ImageName(i) ==
    SubSeq(tasks[i].tif.name, 1, LastDot(tasks[i].tif.name) - 1) \o <<".", "p", "n", "g">>

(* C15: once the stages of an item have all succeeded, the bundle at its   *)
(* destination holds exactly two entries, doc.kml and <source base         *)
(* name>.png, and the image reference and the display name in doc.kml are  *)
(* that image entry's name, a bare file name.                              *)
C15_BundleHoldsDocAndImage ==
    \A i \in Items : Succeeded(i) =>
        /\ Cardinality(BundlesAt(i)) = 1
        /\ \A b \in BundlesAt(i) :
              /\ Cardinality(b.entries) = 2
              /\ b.entries = {<<"d", "o", "c", ".", "k", "m", "l">>, ImageName(i)}
              /\ b.doc.href = ImageName(i)
              /\ b.doc.name = ImageName(i)
              /\ b.doc.href \in b.entries
              /\ \A k \in 1..Len(b.doc.href) : b.doc.href[k] # "/"

(* b.TIFF of the directory A was converted and returned OK: out/A/b.kmz    *)
(* holds doc.kml and b.png                                                 *)
C15_Witness ==
    \E i \in Items :
        /\ pc[i] = "returned"
        /\ failedStage[i] = 0
        /\ tasks[i].tif.name = <<"b", ".", "T", "I", "F", "F">>
        /\ \E b \in bundles : b.path = tasks[i].kmz /\ b.doc.href = <<"b", ".", "p", "n", "g">>

(* The items whose temporary directory exists *)
HasTmp == {i \in Items : tmpdir[i].state \in {"live", "leaked"}}

(* C16: every file a converter made, the bundles apart, lies under the     *)
(* temporary root in the directory of an item whose temporary directory    *)
(* exists, and is that item's image or document; no two items have the     *)
(* same temporary directory; once an item's result has been returned its   *)
(* temporary directory is removed with all it held, whether the stages     *)
(* succeeded or one of them raised; and every bundle is at the destination *)
(* of an item.                                                             *)
C16_PrivateTemporaryFiles ==
    /\ \A f \in tmpfs :
          /\ f.root = "tmp"
          /\ \E i \in HasTmp :
                /\ Dirname(f) = tmpdir[i].dir
                /\ f.name \in {ImageName(i), <<"d", "o", "c", ".", "k", "m", "l">>}
    /\ \A i, j \in HasTmp : i # j => tmpdir[i].dir # tmpdir[j].dir
    /\ \A i \in Items : pc[i] = "returned" =>
          /\ tmpdir[i].state = "removed"
          /\ \A f \in tmpfs : Dirname(f) # tmpdir[i].dir
    /\ \A b \in bundles : \E i \in Items : b.path = tasks[i].kmz

(* An item whose quantize stage raised has returned and its directory is   *)
(* gone, while another item has its image in its own directory             *)
C16_Witness ==
    \E i, j \in Items :
        /\ pc[i] = "returned"
        /\ failedStage[i] = 2
        /\ tmpdir[i].state = "removed"
        /\ pc[j] = "stage"
        /\ \E f \in tmpfs : Dirname(f) = tmpdir[j].dir

(* The paths the pipeline of item i writes or deletes *)
Touches(i) ==
    {tasks[i].kmz} \cup CleanupTargets(tasks[i].tif)
       \cup {File("tmp", <<TmpNames[i]>>, n) : n \in {ImageName(i), <<"d", "o", "c", ".", "k", "m", "l">>}}

(* C17: two distinct WorkItems have distinct destinations and touch no     *)
(* path in common; and the bundle at the destination of an item that       *)
(* returned OK holds the image of that item's source, not another's.       *)
C17_WorkersShareNoPath ==
    /\ \A i, j \in 1..Len(tasks) : i # j =>
          /\ tasks[i].kmz # tasks[j].kmz
          /\ Touches(i) \cap Touches(j) = {}
    /\ \A i \in Items : (pc[i] = "returned" /\ failedStage[i] = 0) =>
          \A b \in BundlesAt(i) : b.image = <<tasks[i].tif>>

(* C19: an item whose converter left the try block has a bundle at its     *)
(* destination exactly when its stages all succeeded, and that bundle      *)
(* holds both entries: an item that is FAILED has made no file there.      *)
C19_FailedLeavesNoBundle ==
    \A i \in Items : pc[i] \in {"cleanup", "release", "returned"} =>
        /\ failedStage[i] # 0 => BundlesAt(i) = {}
        /\ \A b \in BundlesAt(i) : Cardinality(b.entries) = 2

====
